---- MODULE Spec2Model ----
(***************************************************************************)
(* Deferred logging engine of app/inc/logger.h: the level filter, the      *)
(* record protocol towards the sink (startMessage, appendData,             *)
(* appendString, finishMessage), the type-driven argument dispatch and the *)
(* compile-time interning of format literals into per-severity sections.   *)
(***************************************************************************)
EXTENDS Integers, Sequences, FiniteSets, TLC

\* ------------------------------------------------------------------------
\* Bounds of the model
\* ------------------------------------------------------------------------
MaxCalls == 2
MaxArgs == 2
MaxSites == 4
TickModulus == 2

\* ------------------------------------------------------------------------
\* enum class LogLevel
\* ------------------------------------------------------------------------
DEBUG == 0
INFO == 1
WARNING == 2
ERROR == 3
OFF == 4

LogLevel == {DEBUG, INFO, WARNING, ERROR, OFF}

\* the severities that have a LOG_* macro and an interning operator
MacroLevels == {DEBUG, INFO, WARNING, ERROR}

\* ------------------------------------------------------------------------
\* Interning: one static char array per (template, character pack), placed
\* in the section named by the template's attribute.
\* ------------------------------------------------------------------------
InternedDebugString == ".interned_strings.debug"
InternedInfoString == ".interned_strings.info"
InternedWarningString == ".interned_strings.warning"
InternedErrorString == ".interned_strings.error"

Sections ==
  {".interned_strings.debug", ".interned_strings.info",
   ".interned_strings.warning", ".interned_strings.error"}

\* variant: the info template placed in the section of the debug template
SectionOf_InfoInDebug(sev) ==
  CASE sev = DEBUG -> InternedDebugString
    [] sev = INFO -> InternedDebugString
    [] sev = WARNING -> InternedWarningString
    [] sev = ERROR -> InternedErrorString

\* the section written by operator""_intern_<sev>
SectionOf(sev) ==
  CASE sev = DEBUG -> InternedDebugString
    [] sev = INFO -> InternedInfoString
    [] sev = WARNING -> InternedWarningString
    [] sev = ERROR -> InternedErrorString

\* static constexpr char string[] { C..., T{} }: the characters and the
\* terminator
ArraySize(text) == Len(text) + 1

RECURSIVE OffsetAfter(_)
\* bytes taken by a sequence of arrays laid out one after the other
OffsetAfter(arrays) ==
  IF arrays = << >> THEN 0
  ELSE ArraySize(Head(arrays)) + OffsetAfter(Tail(arrays))

\* position of text in a section's sequence of arrays, 0 when absent
IndexOf(arrays, text) ==
  IF \E i \in 1..Len(arrays) : arrays[i] = text
  THEN CHOOSE i \in 1..Len(arrays) : arrays[i] = text
  ELSE 0

\* variant: every use of a literal gets an array of its own
Instantiate_NoReuse(arrays, text) == Append(arrays, text)

\* the section contents after the specialization for text is used: a
\* specialization that exists already is reused, a new one gets its array
Instantiate(arrays, text) ==
  IF IndexOf(arrays, text) # 0 THEN arrays ELSE Append(arrays, text)

\* the value of InternedString{ Interned<Sev>String<C..., 0>::string }
HandleOf(section, arrays, text) ==
  [section |-> section,
   offset |-> OffsetAfter(SubSeq(arrays, 1, IndexOf(arrays, text) - 1))]

\* ------------------------------------------------------------------------
\* Arguments: a type and a value (a number, or the address held by a
\* pointer)
\* ------------------------------------------------------------------------

\* sizeof(const char*) = sizeof(InternedString) on the 32-bit target
PointerSize == 4

ArgValues ==
  {[type |-> "int32_t", val |-> 42],
   [type |-> "const char*", val |-> 500],
   [type |-> "char*", val |-> 900]}

ArgLists == UNION {[1..n -> ArgValues] : n \in 0..MaxArgs}

Literals == {"x", "id=%s", "value=%d"}

\* the call sites of the program: the literal "x" without arguments under
\* every severity, the literal "id=%s" under WARNING with every argument
\* list, and LOG_INFO(logger, "value=%d", 42)
CallSites ==
  {[sev |-> s, fmt |-> "x", args |-> << >>] : s \in MacroLevels}
  \cup {[sev |-> WARNING, fmt |-> "id=%s", args |-> a] : a \in ArgLists}
  \cup {[sev |-> INFO, fmt |-> "value=%d",
          args |-> <<[type |-> "int32_t", val |-> 42]>>]}

\* the order in which the translation meets the literals of the call sites
Program ==
  <<[sev |-> WARNING, fmt |-> "id=%s"], [sev |-> DEBUG, fmt |-> "x"],
    [sev |-> INFO, fmt |-> "x"], [sev |-> WARNING, fmt |-> "x"],
    [sev |-> ERROR, fmt |-> "x"], [sev |-> WARNING, fmt |-> "id=%s"],
    [sev |-> DEBUG, fmt |-> "x"], [sev |-> INFO, fmt |-> "value=%d"]>>

RECURSIVE Image(_, _)
\* the sections of the program image: every literal of the program
\* instantiated, in order
Image(program, secs) ==
  IF program = << >> THEN secs
  ELSE LET sec == SectionOf(Head(program).sev)
       IN Image(Tail(program),
                [secs EXCEPT ![sec] = Instantiate(@, Head(program).fmt)])

\* sizeof(T) of the argument types
SizeOf(type) ==
  CASE type = "int32_t" -> 4
    [] type = "InternedString" -> PointerSize
    [] type = "const char*" -> PointerSize
    [] type = "char*" -> PointerSize

\* variant: the handle is handed over as the text it points to
SendArgument_HandleAsString(arg) ==
  IF arg.type \in {"const char*", "InternedString"}
  THEN [op |-> "appendString", val |-> arg.val, len |-> 0]
  ELSE [op |-> "appendData", val |-> arg.val, len |-> SizeOf(arg.type)]

\* overload resolution between sendArgument(const T) and
\* sendArgument(const char*): the non-template overload is chosen only
\* when the argument is a const char*; for every other type, a char*
\* included, the template is the exact match
SendArgument(arg) ==
  IF arg.type = "const char*"
  THEN [op |-> "appendString", val |-> arg.val, len |-> 0]
  ELSE [op |-> "appendData", val |-> arg.val, len |-> SizeOf(arg.type)]

\* ------------------------------------------------------------------------
\* State
\* ------------------------------------------------------------------------

\* the execution contexts that use the logger: the main thread and an
\* interrupt handler that preempts it and runs to completion
Contexts == {"thread", "isr"}

VARIABLES
  m_level,    \* Logger::m_level
  tick,       \* the coarse tick count of the SysTick singleton
  sections,   \* section name -> the arrays placed in it, in order
  sites,      \* the call sites translated so far, with their handles
  pc,         \* context -> position in the macro / in log
  frame,      \* context -> parameters and locals of its call
  ncalls,     \* number of calls made
  trace,      \* the operations the sink has received
  reads,      \* the reads of the tick provider
  filtered,   \* the calls that returned at the level comparison
  lastSet     \* the argument of the latest setLevel

vars ==
  <<m_level, tick, sections, sites, pc, frame, ncalls, trace, reads,
    filtered, lastSet>>

NoFrame ==
  [call |-> 0, macro |-> FALSE, level |-> DEBUG, sev |-> DEBUG, fmt |-> "",
   args |-> << >>, rest |-> << >>, tick |-> 0]

\* variant: the threshold starts at WARNING
Init_DefaultWarning ==
  /\ m_level = WARNING
  /\ tick \in 0..(TickModulus - 1)
  /\ sections = Image(Program, [s \in Sections |-> << >>])
  /\ sites = << >>
  /\ pc = [c \in Contexts |-> "idle"]
  /\ frame = [c \in Contexts |-> NoFrame]
  /\ ncalls = 0
  /\ trace = << >>
  /\ reads = << >>
  /\ filtered = {}
  /\ lastSet = WARNING

Init ==
  /\ m_level = DEBUG
  /\ tick \in 0..(TickModulus - 1)
  /\ sections = Image(Program, [s \in Sections |-> << >>])
  /\ sites = << >>
  /\ pc = [c \in Contexts |-> "idle"]
  /\ frame = [c \in Contexts |-> NoFrame]
  /\ ncalls = 0
  /\ trace = << >>
  /\ reads = << >>
  /\ filtered = {}
  /\ lastSet = DEBUG

\* the thread runs while the interrupt handler is not active
Running(c) == c = "isr" \/ pc["isr"] = "idle"

\* ------------------------------------------------------------------------
\* The call sites
\* ------------------------------------------------------------------------

\* a context reaches a call site; macro tells a LOG_<sev> macro, whose level
\* is the severity of its interning operator, from a plain call of log
Enter(c, macro, level, site) ==
  /\ pc[c] = "idle"
  /\ Running(c)
  /\ ncalls < MaxCalls
  /\ ncalls' = ncalls + 1
  /\ pc' = [pc EXCEPT ![c] = IF macro THEN "validate" ELSE "intern"]
  /\ frame' = [frame EXCEPT ![c] =
       [call |-> ncalls + 1, macro |-> macro, level |-> level,
        sev |-> site.sev, fmt |-> site.fmt, args |-> site.args,
        rest |-> << >>, tick |-> 0]]
  /\ UNCHANGED <<m_level, tick, sections, sites, trace, reads, filtered,
                 lastSet>>

\* variant: every macro passes LogLevel::DEBUG to log, whatever the
\* severity of its interning operator
LogMacro_DebugLevel(c) ==
  \E site \in CallSites : Enter(c, TRUE, DEBUG, site)

\* LOG_DEBUG / LOG_INFO / LOG_WARNING / LOG_ERROR (logger, fmt, args...)
LogMacro(c) ==
  \E site \in CallSites : Enter(c, TRUE, site.sev, site)

\* logger->log(level, "x"_intern_debug) written without a macro: the level
\* is any value of the enumeration
LogCall(c) ==
  \E level \in LogLevel :
    Enter(c, FALSE, level, [sev |-> DEBUG, fmt |-> "x", args |-> << >>])

\* variant: the validator hands the format text to the sink
printfFmtValidator_Formats(c) ==
  /\ pc[c] = "validate"
  /\ Running(c)
  /\ pc' = [pc EXCEPT ![c] = "intern"]
  /\ trace' = Append(trace,
       [op |-> "appendString", call |-> frame[c].call, val |-> 0,
        len |-> 0])
  /\ UNCHANGED <<m_level, tick, sections, sites, frame, ncalls, reads,
                 filtered, lastSet>>

\* Logger::printfFmtValidator: an empty body
printfFmtValidator(c) ==
  /\ pc[c] = "validate"
  /\ Running(c)
  /\ pc' = [pc EXCEPT ![c] = "intern"]
  /\ UNCHANGED <<m_level, tick, sections, sites, frame, ncalls, trace, reads,
                 filtered, lastSet>>

\* operator""_intern_<sev>: the address of the literal's array becomes the
\* first argument of log
Intern(c) ==
  /\ pc[c] = "intern"
  /\ Running(c)
  /\ LET sec == SectionOf(frame[c].sev)
         handle == HandleOf(sec, sections[sec], frame[c].fmt)
         pack == <<[type |-> "InternedString", val |-> handle]>>
                   \o frame[c].args
     IN frame' = [frame EXCEPT ![c].args = pack, ![c].rest = pack]
  /\ pc' = [pc EXCEPT ![c] = "check"]
  /\ UNCHANGED <<m_level, tick, sections, sites, ncalls, trace, reads,
                 filtered, lastSet>>

\* ------------------------------------------------------------------------
\* Logger
\* ------------------------------------------------------------------------

\* variant: the comparison reversed
Filtered_Reversed(level, threshold) == level > threshold

\* the comparison of log: a call with level < m_level returns
Filtered(level, threshold) == level < threshold

\* variant: a call that passes the filter leaves its level as the threshold
LogCheck_AdoptsLevel(c) ==
  /\ pc[c] = "check"
  /\ Running(c)
  /\ IF Filtered(frame[c].level, m_level)
     THEN /\ pc' = [pc EXCEPT ![c] = "idle"]
          /\ frame' = [frame EXCEPT ![c] = NoFrame]
          /\ filtered' = filtered \cup {frame[c].call}
          /\ m_level' = m_level
     ELSE /\ pc' = [pc EXCEPT ![c] = "read"]
          /\ frame' = frame
          /\ filtered' = filtered
          /\ m_level' = frame[c].level
  /\ UNCHANGED <<tick, sections, sites, ncalls, trace, reads, lastSet>>

\* variant: the record is started before the level is compared
LogCheck_StartsFirst(c) ==
  /\ pc[c] = "check"
  /\ Running(c)
  /\ trace' = Append(trace,
       [op |-> "startMessage", call |-> frame[c].call, val |-> tick,
        len |-> 0])
  /\ IF Filtered(frame[c].level, m_level)
     THEN /\ pc' = [pc EXCEPT ![c] = "idle"]
          /\ frame' = [frame EXCEPT ![c] = NoFrame]
          /\ filtered' = filtered \cup {frame[c].call}
     ELSE /\ pc' = [pc EXCEPT ![c] = "send"]
          /\ frame' = frame
          /\ filtered' = filtered
  /\ UNCHANGED <<m_level, tick, sections, sites, ncalls, reads, lastSet>>

\* variant: log waits until the threshold lets the call through
LogCheck_Waits(c) ==
  /\ pc[c] = "check"
  /\ Running(c)
  /\ ~Filtered(frame[c].level, m_level)
  /\ pc' = [pc EXCEPT ![c] = "read"]
  /\ UNCHANGED <<m_level, tick, sections, sites, frame, ncalls, trace, reads,
                 filtered, lastSet>>

\* Logger::log, if (level < m_level) return;
LogCheck(c) ==
  /\ pc[c] = "check"
  /\ Running(c)
  /\ IF Filtered(frame[c].level, m_level)
     THEN /\ pc' = [pc EXCEPT ![c] = "idle"]
          /\ frame' = [frame EXCEPT ![c] = NoFrame]
          /\ filtered' = filtered \cup {frame[c].call}
     ELSE /\ pc' = [pc EXCEPT ![c] = "read"]
          /\ frame' = frame
          /\ filtered' = filtered
  /\ UNCHANGED <<m_level, tick, sections, sites, ncalls, trace, reads,
                 lastSet>>

\* Logger::log, m_systick.getCoarseTickCount()
GetCoarseTickCount(c) ==
  /\ pc[c] = "read"
  /\ Running(c)
  /\ frame' = [frame EXCEPT ![c].tick = tick]
  /\ reads' = Append(reads, [call |-> frame[c].call, val |-> tick])
  /\ pc' = [pc EXCEPT ![c] = "start"]
  /\ UNCHANGED <<m_level, tick, sections, sites, ncalls, trace, filtered,
                 lastSet>>

\* variant: startMessage waits while another context has a record open
StartMessage_Locked(c) ==
  /\ pc[c] = "start"
  /\ Running(c)
  /\ \A d \in Contexts \ {c} : pc[d] \notin {"send", "finish"}
  /\ trace' = Append(trace,
       [op |-> "startMessage", call |-> frame[c].call,
        val |-> frame[c].tick, len |-> 0])
  /\ pc' = [pc EXCEPT ![c] = "send"]
  /\ UNCHANGED <<m_level, tick, sections, sites, frame, ncalls, reads,
                 filtered, lastSet>>

\* variant: the timestamp is taken from the tick provider as it is when the
\* record is started, not from the read at the start of the call
StartMessage_LateTick(c) ==
  /\ pc[c] = "start"
  /\ Running(c)
  /\ trace' = Append(trace,
       [op |-> "startMessage", call |-> frame[c].call, val |-> tick,
        len |-> 0])
  /\ pc' = [pc EXCEPT ![c] = "send"]
  /\ UNCHANGED <<m_level, tick, sections, sites, frame, ncalls, reads,
                 filtered, lastSet>>

\* Logger::log, m_derived.startMessage(...)
StartMessage(c) ==
  /\ pc[c] = "start"
  /\ Running(c)
  /\ trace' = Append(trace,
       [op |-> "startMessage", call |-> frame[c].call,
        val |-> frame[c].tick, len |-> 0])
  /\ pc' = [pc EXCEPT ![c] = "send"]
  /\ UNCHANGED <<m_level, tick, sections, sites, frame, ncalls, reads,
                 filtered, lastSet>>

\* variant: the pack is consumed from its end
SendRemainingArguments_LastFirst(c) ==
  /\ pc[c] = "send"
  /\ Running(c)
  /\ trace' = Append(trace,
       [call |-> frame[c].call]
         @@ SendArgument(frame[c].rest[Len(frame[c].rest)]))
  /\ frame' = [frame EXCEPT ![c].rest = SubSeq(@, 1, Len(@) - 1)]
  /\ pc' = [pc EXCEPT ![c] =
       IF Len(frame[c].rest) = 1 THEN "finish" ELSE "send"]
  /\ UNCHANGED <<m_level, tick, sections, sites, ncalls, reads, filtered,
                 lastSet>>

\* variant: the level is compared again before every argument, and the
\* call is abandoned when it is below the threshold
SendRemainingArguments_Recheck(c) ==
  /\ pc[c] = "send"
  /\ Running(c)
  /\ IF frame[c].level < m_level
     THEN /\ trace' = trace
          /\ frame' = [frame EXCEPT ![c] = NoFrame]
          /\ pc' = [pc EXCEPT ![c] = "idle"]
     ELSE /\ trace' = Append(trace,
               [call |-> frame[c].call]
                 @@ SendArgument(Head(frame[c].rest)))
          /\ frame' = [frame EXCEPT ![c].rest = Tail(@)]
          /\ pc' = [pc EXCEPT ![c] =
               IF Len(frame[c].rest) = 1 THEN "finish" ELSE "send"]
  /\ UNCHANGED <<m_level, tick, sections, sites, ncalls, reads, filtered,
                 lastSet>>

\* Logger::sendRemainingArguments: sendArgument(first_arg), then the same
\* for the rest of the pack; the one-argument overload ends the recursion
SendRemainingArguments(c) ==
  /\ pc[c] = "send"
  /\ Running(c)
  /\ trace' = Append(trace,
       [call |-> frame[c].call] @@ SendArgument(Head(frame[c].rest)))
  /\ frame' = [frame EXCEPT ![c].rest = Tail(@)]
  /\ pc' = [pc EXCEPT ![c] =
       IF Len(frame[c].rest) = 1 THEN "finish" ELSE "send"]
  /\ UNCHANGED <<m_level, tick, sections, sites, ncalls, reads, filtered,
                 lastSet>>

\* variant: log returns without finishMessage
FinishMessage_Missing(c) ==
  /\ pc[c] = "finish"
  /\ Running(c)
  /\ pc' = [pc EXCEPT ![c] = "idle"]
  /\ frame' = [frame EXCEPT ![c] = NoFrame]
  /\ UNCHANGED <<m_level, tick, sections, sites, ncalls, trace, reads,
                 filtered, lastSet>>

\* Logger::log, m_derived.finishMessage()
FinishMessage(c) ==
  /\ pc[c] = "finish"
  /\ Running(c)
  /\ trace' = Append(trace,
       [op |-> "finishMessage", call |-> frame[c].call, val |-> 0,
        len |-> 0])
  /\ pc' = [pc EXCEPT ![c] = "idle"]
  /\ frame' = [frame EXCEPT ![c] = NoFrame]
  /\ UNCHANGED <<m_level, tick, sections, sites, ncalls, reads, filtered,
                 lastSet>>

\* variant: setLevel only raises the threshold
SetLevel_RaiseOnly(level) ==
  /\ m_level' = IF level > m_level THEN level ELSE m_level
  /\ lastSet' = level
  /\ UNCHANGED <<tick, sections, sites, pc, frame, ncalls, trace, reads,
                 filtered>>

\* Logger::setLevel
SetLevel(level) ==
  /\ m_level' = level
  /\ lastSet' = level
  /\ UNCHANGED <<tick, sections, sites, pc, frame, ncalls, trace, reads,
                 filtered>>

\* the tick provider advances, wrapping
Tick ==
  /\ tick' = (tick + 1) % TickModulus
  /\ UNCHANGED <<m_level, sections, sites, pc, frame, ncalls, trace, reads,
                 filtered, lastSet>>

Next ==
  \/ \E c \in Contexts : LogMacro(c)
  \/ \E c \in Contexts : LogCall(c)
  \/ \E c \in Contexts : printfFmtValidator(c)
  \/ \E c \in Contexts : Intern(c)
  \/ \E c \in Contexts : LogCheck(c)
  \/ \E c \in Contexts : GetCoarseTickCount(c)
  \/ \E c \in Contexts : StartMessage(c)
  \/ \E c \in Contexts : SendRemainingArguments(c)
  \/ \E c \in Contexts : FinishMessage(c)
  \/ \E level \in LogLevel : SetLevel(level)
  \/ Tick

Spec == Init /\ [][Next]_vars

\* a context takes the next step of the call it is in
Step(c) ==
  \/ printfFmtValidator(c)
  \/ Intern(c)
  \/ LogCheck(c)
  \/ GetCoarseTickCount(c)
  \/ StartMessage(c)
  \/ SendRemainingArguments(c)
  \/ FinishMessage(c)

\* the programs that never call setLevel
DefaultNext ==
  \/ \E c \in Contexts : LogMacro(c)
  \/ \E c \in Contexts : LogCall(c)
  \/ \E c \in Contexts : Step(c)
  \/ Tick

DefaultSpec == Init /\ [][DefaultNext]_vars

\* the programs whose calls all come from the thread
SeqNext ==
  \/ LogMacro("thread")
  \/ LogCall("thread")
  \/ Step("thread")
  \/ \E level \in LogLevel : SetLevel(level)
  \/ Tick

SeqSpec == Init /\ [][SeqNext]_vars

\* the thread's calls when every step that can be taken is taken: the tick
\* read and the sink operations return
FairSpec == SeqSpec /\ WF_vars(Step("thread"))

\* ------------------------------------------------------------------------
\* Translation of the call sites: the interning operators instantiate the
\* Interned<Sev>String specializations
\* ------------------------------------------------------------------------
BuildInit ==
  /\ m_level = DEBUG
  /\ tick = 0
  /\ sections = [s \in Sections |-> << >>]
  /\ sites = << >>
  /\ pc = [c \in Contexts |-> "idle"]
  /\ frame = [c \in Contexts |-> NoFrame]
  /\ ncalls = 0
  /\ trace = << >>
  /\ reads = << >>
  /\ filtered = {}
  /\ lastSet = DEBUG

\* a use of fmt_intern_<sev> is translated
Translate(sev, fmt) ==
  /\ Len(sites) < MaxSites
  /\ LET sec == SectionOf(sev)
         arrays == Instantiate(sections[sec], fmt)
     IN /\ sections' = [sections EXCEPT ![sec] = arrays]
        /\ sites' = Append(sites,
             [sev |-> sev, fmt |-> fmt,
              handle |-> HandleOf(sec, arrays, fmt)])
  /\ UNCHANGED <<m_level, tick, pc, frame, ncalls, trace, reads, filtered,
                 lastSet>>

BuildNext == \E sev \in MacroLevels, fmt \in Literals : Translate(sev, fmt)

BuildSpec == BuildInit /\ [][BuildNext]_vars

\* ------------------------------------------------------------------------
\* Properties
\* ------------------------------------------------------------------------

\* the sink operations and the tick reads of call k, in order
OpsOf(k) == SelectSeq(trace, LAMBDA e : e.call = k)
ReadsOf(k) == SelectSeq(reads, LAMBDA r : r.call = k)

\* context c executes the level comparison of log in this step
CheckStep(c) == pc[c] = "check" /\ pc'[c] # "check"

InFlight(k) == \E c \in Contexts : frame[c].call = k
IsAppend(e) == e.op \in {"appendData", "appendString"}

\* entry e of the trace carries the value of argument arg (a number, an
\* address or a handle)
Carries(e, arg) == ToString(e.val) = ToString(arg.val)

\* the contexts that are past startMessage, and the number of arguments
\* they have handed to the sink
Sending(c) == pc[c] \in {"send", "finish"}
Sent(c) == Len(frame[c].args) - Len(frame[c].rest)

\* C1: a call whose severity is below the current threshold returns at the
\* comparison with the sink trace and the tick reads unchanged, and no sink
\* operation and no tick read ever belongs to such a call.
C1_FilteredCallHasNoEffect ==
  [][/\ \A c \in Contexts :
          (CheckStep(c) /\ frame[c].level < m_level)
            => /\ trace' = trace
               /\ reads' = reads
               /\ pc'[c] = "idle"
               /\ frame[c].call \in filtered'
      /\ \A k \in filtered' :
          OpsOf(k)' = << >> /\ ReadsOf(k)' = << >>]_vars

C1_Witness ==
  /\ m_level = ERROR
  /\ filtered = {1, 2}
  /\ trace = << >>
  /\ reads = << >>

\* C2: after setLevel(OFF) and until the next setLevel every call is
\* filtered, whatever its severity, OFF included: the level comparison
\* returns and leaves the sink trace and the tick reads unchanged.
C2_OffFiltersEverySeverity ==
  [][\A c \in Contexts :
       (CheckStep(c) /\ lastSet = OFF)
         => /\ pc'[c] = "idle"
            /\ trace' = trace
            /\ reads' = reads]_vars

\* a call that is not filtered and has returned
Completed(k) == k \in 1..ncalls /\ k \notin filtered /\ ~InFlight(k)

\* C3: the operations of a call that is not filtered begin with its only
\* startMessage, contain no finishMessage before the last position, and a
\* call that has returned ends with its only finishMessage.
C3_OneStartOneFinish ==
  \A k \in 1..ncalls :
    LET ops == OpsOf(k)
    IN /\ ops # << >> =>
            /\ ops[1].op = "startMessage"
            /\ \A i \in 2..Len(ops) : ops[i].op # "startMessage"
            /\ \A i \in 1..(Len(ops) - 1) : ops[i].op # "finishMessage"
       /\ Completed(k) => ops # << >> /\ ops[Len(ops)].op = "finishMessage"
       /\ InFlight(k) /\ ops # << >> => ops[Len(ops)].op # "finishMessage"

C3_Witness ==
  /\ Completed(1) /\ Completed(2)
  /\ Len(OpsOf(1)) = 3
  /\ Len(OpsOf(2)) = 5

\* C4: after startMessage the sink has received one append per argument
\* handed over so far, the i-th carrying the i-th argument of the call, and
\* when finishMessage is due there are exactly N appends after the handle's.
C4_ArgumentsInOrder ==
  \A c \in Contexts :
    Sending(c) =>
      LET ops == OpsOf(frame[c].call)
      IN /\ Len(ops) = 1 + Sent(c)
         /\ \A i \in 1..Sent(c) :
              IsAppend(ops[i + 1]) /\ Carries(ops[i + 1], frame[c].args[i])
         /\ pc[c] = "finish" => Len(ops) = 1 + Len(frame[c].args)
         /\ pc[c] = "send" => frame[c].rest # << >>

C4_Witness ==
  \E c \in Contexts :
    /\ pc[c] = "finish"
    /\ Len(frame[c].args) = 3
    /\ frame[c].args[2].val # frame[c].args[3].val
    /\ OpsOf(frame[c].call)[3].val = frame[c].args[2].val
    /\ OpsOf(frame[c].call)[4].val = frame[c].args[3].val

\* the literal whose array begins at the handle's offset of its section
TextAt(handle) ==
  LET arrays == sections[handle.section]
      at == {i \in 1..Len(arrays) :
               OffsetAfter(SubSeq(arrays, 1, i - 1)) = handle.offset}
  IN IF at = {} THEN "" ELSE arrays[CHOOSE i \in at : TRUE]

\* C5: a record is startMessage, then an appendData of pointer size that
\* carries the handle of the call's format literal, then appends only, then
\* finishMessage.
C5_RecordShape ==
  /\ \A k \in 1..ncalls :
       LET ops == OpsOf(k)
       IN /\ Len(ops) >= 1 => ops[1].op = "startMessage"
          /\ Len(ops) >= 2 =>
               /\ ops[2].op = "appendData"
               /\ ops[2].len = PointerSize
               /\ ops[2].val \in [section : Sections, offset : Nat]
          /\ \A i \in 3..(Len(ops) - 1) : IsAppend(ops[i])
          /\ Len(ops) >= 3 =>
               IsAppend(ops[Len(ops)]) \/ ops[Len(ops)].op = "finishMessage"
          /\ Completed(k) => Len(ops) >= 3 /\ ops[Len(ops)].op = "finishMessage"
  /\ \A c \in Contexts :
       (Sending(c) /\ Sent(c) >= 1) =>
         LET first == OpsOf(frame[c].call)[2]
         IN /\ frame[c].args[1].type = "InternedString"
            /\ Carries(first, frame[c].args[1])
            /\ TextAt(first.val) = frame[c].fmt

C5_Witness ==
  /\ Completed(1)
  /\ Len(OpsOf(1)) = 3
  /\ OpsOf(1)[2].val = [section |-> ".interned_strings.warning", offset |-> 6]
  /\ \E c \in Contexts :
       /\ pc[c] = "finish"
       /\ frame[c].fmt = "id=%s"
       /\ Len(frame[c].args) = 3
       /\ OpsOf(frame[c].call)[2].len = PointerSize
       /\ OpsOf(frame[c].call)[2].val =
            [section |-> ".interned_strings.warning", offset |-> 0]

\* the argument types of the calls: pointers to null-terminated characters,
\* and scalars with their byte size
TextTypes == {"const char*", "char*"}
ScalarSize == [t \in {"int32_t"} |-> 4]

\* C6: every textual argument, const or mutable pointee, is handed to the
\* sink by appendString, and every scalar argument by an appendData of the
\* byte size of its type.
C6_DispatchByType ==
  \A c \in Contexts :
    Sending(c) =>
      \A i \in 2..Sent(c) :
        LET arg == frame[c].args[i]
            e == OpsOf(frame[c].call)[i + 1]
        IN /\ arg.type \in TextTypes => e.op = "appendString"
           /\ arg.type \in DOMAIN ScalarSize =>
                e.op = "appendData" /\ e.len = ScalarSize[arg.type]

\* C7: a call with sink operations has read the tick provider exactly once,
\* before its startMessage, which carries the value read whatever the tick
\* provider shows now; a call reads at most once, a completed call once.
C7_TickReadOnce ==
  \A k \in 1..ncalls :
    LET ops == OpsOf(k)
        rds == ReadsOf(k)
    IN /\ Len(rds) <= 1
       /\ ops # << >> =>
            /\ Len(rds) = 1
            /\ ops[1].op = "startMessage"
            /\ ops[1].val = rds[1].val
       /\ Completed(k) => Len(rds) = 1
       /\ \A c \in Contexts :
            /\ (frame[c].call = k /\ pc[c] = "start") =>
                 (ops = << >> /\ Len(rds) = 1 /\ rds[1].val = frame[c].tick)
            /\ (frame[c].call = k /\ pc[c] \in {"validate", "intern",
                                                "check", "read"}) =>
                 (ops = << >> /\ rds = << >>)

C7_Witness ==
  \E c \in Contexts :
    /\ pc[c] = "finish"
    /\ Len(frame[c].args) = 3
    /\ ReadsOf(frame[c].call) = <<[call |-> frame[c].call, val |-> 1]>>
    /\ OpsOf(frame[c].call)[1].val = 1
    /\ tick = 0

\* C8: under BuildSpec, two uses of the same literal under the same severity
\* get the same handle, and no section holds two arrays of the same literal.
C8_InternDeduplicates ==
  /\ \A i, j \in 1..Len(sites) :
       (sites[i].sev = sites[j].sev /\ sites[i].fmt = sites[j].fmt)
         => sites[i].handle = sites[j].handle
  /\ \A sec \in Sections :
       \A i, j \in 1..Len(sections[sec]) :
         sections[sec][i] = sections[sec][j] => i = j
  /\ \A i \in 1..Len(sites) : TextAt(sites[i].handle) = sites[i].fmt

C8_Witness ==
  /\ Len(sites) = 4
  /\ sites[1].fmt = "id=%s" /\ sites[1].sev = ERROR
  /\ sites[2].fmt = "x" /\ sites[2].sev = ERROR
  /\ sites[3] = sites[1]
  /\ sites[4] = sites[2]
  /\ sites[4].handle.offset = 6
  /\ Len(sections[".interned_strings.error"]) = 2

\* the storage region the image is to hold the literals of a severity in
Region ==
  [sev \in MacroLevels |->
     IF sev = DEBUG THEN ".interned_strings.debug"
     ELSE IF sev = INFO THEN ".interned_strings.info"
     ELSE IF sev = WARNING THEN ".interned_strings.warning"
     ELSE ".interned_strings.error"]

\* C9: under BuildSpec, uses under different severities get different
\* handles, the handle of a use lies in the region of its severity where it
\* addresses the array of its literal, and the regions of two severities
\* differ.
C9_RegionPerSeverity ==
  /\ \A i, j \in 1..Len(sites) :
       sites[i].sev # sites[j].sev
         => /\ sites[i].handle # sites[j].handle
            /\ sites[i].handle.section # sites[j].handle.section
  /\ \A i \in 1..Len(sites) :
       /\ sites[i].handle.section = Region[sites[i].sev]
       /\ TextAt(sites[i].handle) = sites[i].fmt
  /\ \A sec \in Sections :
       \A i \in 1..Len(sections[sec]) :
         \E k \in 1..Len(sites) :
           sites[k].fmt = sections[sec][i] /\ Region[sites[k].sev] = sec

C9_Witness ==
  /\ Len(sites) = 4
  /\ \A i \in 1..4 : sites[i].fmt = "x" /\ sites[i].handle.offset = 0
  /\ {sites[i].sev : i \in 1..4} = MacroLevels
  /\ Cardinality({sites[i].handle : i \in 1..4}) = 4

\* C10: the threshold is the argument of the latest setLevel, and the level
\* comparison of a call lets it through exactly when its severity is at
\* least that argument; a call that is let through goes on to read the tick
\* provider, a call that is not returns without effect.
C10_SetLevelDecidesFilter ==
  [][/\ m_level' = lastSet'
     /\ \A c \in Contexts :
          CheckStep(c) =>
            /\ frame[c].level >= lastSet <=> pc'[c] = "read"
            /\ frame[c].level < lastSet <=> pc'[c] = "idle"
            /\ frame[c].level < lastSet <=> frame[c].call \in filtered'
            /\ trace' = trace /\ reads' = reads]_vars

C10_Witness ==
  /\ lastSet = WARNING
  /\ m_level = WARNING
  /\ filtered = {1}
  /\ Len(trace) = 2
  /\ trace[2].val = [section |-> ".interned_strings.error", offset |-> 0]
  /\ \E c \in Contexts :
       /\ frame[c].call = 2
       /\ frame[c].macro
       /\ frame[c].level = ERROR
       /\ pc[c] = "finish"

\* the sink operations of call k after the step
OpsAfter(k) == SelectSeq(trace', LAMBDA e : e.call = k)

\* context c executes finishMessage and returns in this step
FinishStep(c) == pc[c] = "finish" /\ pc'[c] = "idle"

\* C11: under DefaultSpec (setLevel is never called) the threshold is DEBUG,
\* every call at DEBUG, INFO, WARNING or ERROR passes the level comparison
\* and returns with a complete record, and LOG_INFO(logger, "value=%d", 42)
\* yields startMessage(tick), appendData(handle), appendData(42, 4 bytes),
\* finishMessage.
C11_DefaultThresholdLogsAll ==
  [][/\ m_level = DEBUG
     /\ \A c \in Contexts :
          /\ (CheckStep(c) /\ frame[c].level \in MacroLevels)
               => pc'[c] = "read" /\ frame[c].call \notin filtered'
          /\ FinishStep(c) =>
               LET ops == OpsAfter(frame[c].call)
               IN /\ Len(ops) = Len(frame[c].args) + 2
                  /\ ops[1].op = "startMessage"
                  /\ ops[1].val = frame[c].tick
                  /\ ops[Len(ops)].op = "finishMessage"
          /\ (FinishStep(c) /\ frame[c].macro /\ frame[c].fmt = "value=%d") =>
               LET k == frame[c].call
               IN OpsAfter(frame[c].call) =
                    <<[op |-> "startMessage", call |-> k,
                       val |-> frame[c].tick, len |-> 0],
                      [op |-> "appendData", call |-> k,
                       val |-> [section |-> ".interned_strings.info",
                                offset |-> 2],
                       len |-> PointerSize],
                      [op |-> "appendData", call |-> k, val |-> 42,
                       len |-> 4],
                      [op |-> "finishMessage", call |-> k, val |-> 0,
                       len |-> 0]>>]_vars

C11_Witness ==
  /\ m_level = DEBUG
  /\ ncalls = 1
  /\ Completed(1)
  /\ Len(trace) = 4
  /\ trace[2].op = "appendData"
  /\ TextAt(trace[2].val) = "value=%d"
  /\ trace[2].val.section = ".interned_strings.info"
  /\ trace[3] = [op |-> "appendData", call |-> 1, val |-> 42, len |-> 4]
  /\ trace[4].op = "finishMessage"

\* C12: a call whose severity is OFF never gets past the level comparison,
\* whatever the threshold: it reads no tick and reaches no sink operation.
C12_OffNeverLogged ==
  \A c \in Contexts :
    frame[c].level = OFF =>
      pc[c] \notin {"read", "start", "send", "finish"}

\* C13: once a call is past the level comparison, no step takes it back or
\* makes it return before finishMessage, whatever the threshold has become:
\* it goes on to the tick read, startMessage, its appends and finishMessage;
\* and a change of the threshold leaves every call in flight, the sink trace
\* and the tick reads as they are.
C13_InFlightCallUnaffected ==
  [][/\ \A c \in Contexts :
          /\ pc[c] = "read" => pc'[c] \in {"read", "start"}
          /\ pc[c] = "start" => pc'[c] \in {"start", "send"}
          /\ pc[c] = "send" => pc'[c] \in {"send", "finish"}
          /\ pc[c] \in {"read", "start", "send"} =>
               frame'[c].call = frame[c].call
          /\ (pc[c] = "finish" /\ pc'[c] # "finish") =>
               /\ pc'[c] = "idle"
               /\ Len(OpsAfter(frame[c].call)) = Len(frame[c].args) + 2
               /\ trace'[Len(trace')].op = "finishMessage"
               /\ trace'[Len(trace')].call = frame[c].call
     /\ m_level' # m_level =>
          /\ pc' = pc
          /\ frame' = frame
          /\ trace' = trace
          /\ reads' = reads]_vars

C13_Witness ==
  \E c \in Contexts :
    /\ pc[c] = "finish"
    /\ frame[c].level < m_level
    /\ Len(frame[c].args) = 3
    /\ Len(OpsOf(frame[c].call)) = 4

\* the state of the program: the logger, the image, the sink, the tick
\* provider and its reads
ProgramState == <<m_level, lastSet, sections, tick, trace, reads>>

\* C14: the validator step of a macro changes nothing but the position of
\* its context, which then stands where a plain call of log begins; no step
\* of a macro invocation before the tick read changes the state of the
\* program, and an invocation that is filtered returns with it unchanged.
C14_ValidatorHasNoEffect ==
  [][\A c \in Contexts :
       /\ (pc[c] = "validate" /\ pc'[c] # "validate") =>
            /\ pc'[c] = "intern"
            /\ frame' = frame
            /\ \A d \in Contexts \ {c} : pc'[d] = pc[d]
            /\ ProgramState' = ProgramState
            /\ filtered' = filtered /\ ncalls' = ncalls
       /\ (pc'[c] # pc[c] /\ pc'[c] \in {"validate", "intern", "check"}) =>
            ProgramState' = ProgramState
       /\ (frame[c].macro /\ CheckStep(c) /\ frame[c].level < m_level) =>
            /\ pc'[c] = "idle"
            /\ frame'[c] = NoFrame
            /\ ProgramState' = ProgramState]_vars

C14_Witness ==
  \E c \in Contexts :
    /\ frame[c].macro
    /\ pc[c] = "intern"
    /\ frame[c].level < m_level
    /\ trace = << >>
    /\ reads = << >>
    /\ ncalls = 1

\* C15: under FairSpec (the tick read and every sink operation return) a
\* call that has begun returns; a call that has returned was either filtered,
\* with no sink operation, or has a record closed by its one finishMessage;
\* and a call in flight has issued one operation per statement executed,
\* none of them twice.
C15_CallsTerminate ==
  /\ \A c \in Contexts : (pc[c] # "idle") ~> (pc[c] = "idle")
  /\ [](\A k \in 1..ncalls :
          LET ops == OpsOf(k)
              finishes == {i \in 1..Len(ops) : ops[i].op = "finishMessage"}
          IN ~InFlight(k) =>
               \/ k \in filtered /\ ops = << >>
               \/ /\ k \notin filtered
                  /\ finishes = {Len(ops)}
                  /\ ops[1].op = "startMessage")
  /\ [](\A c \in Contexts :
          /\ Sending(c) => Len(OpsOf(frame[c].call)) = 1 + Sent(c)
          /\ pc[c] \in {"validate", "intern", "check", "read", "start"} =>
               OpsOf(frame[c].call) = << >>)

C15_Witness ==
  /\ ncalls = 2
  /\ pc["thread"] = "idle"
  /\ filtered = {1}
  /\ Len(OpsOf(2)) = 5
  /\ OpsOf(2)[5].op = "finishMessage"

\* the number of records open after the first i operations of the trace
OpenAfter(i) ==
  Cardinality({j \in 1..i : trace[j].op = "startMessage"})
    - Cardinality({j \in 1..i : trace[j].op = "finishMessage"})

\* C16: under SeqSpec (all calls come from one context) the sink trace is a
\* concatenation of records: a startMessage arrives only while no record is
\* open, an append or a finishMessage only while one is open, and no record
\* is open while the context is not between startMessage and finishMessage.
C16_TraceIsRecords ==
  /\ \A i \in 1..Len(trace) :
       /\ trace[i].op = "startMessage" => OpenAfter(i - 1) = 0
       /\ trace[i].op # "startMessage" => OpenAfter(i - 1) = 1
       /\ trace[i].op \in {"startMessage", "appendData", "appendString",
                           "finishMessage"}
  /\ OpenAfter(Len(trace)) = IF Sending("thread") THEN 1 ELSE 0
  /\ pc["isr"] = "idle"

C16_Witness ==
  /\ pc["thread"] = "idle"
  /\ Completed(1) /\ Completed(2)
  /\ Len(trace) = 8
  /\ trace[3].op = "finishMessage"
  /\ trace[4].op = "startMessage"
  /\ OpenAfter(8) = 0

\* C17: the engine holds no context back: a context that is scheduled can
\* take the next step of its call (the tick read, startMessage, an append,
\* finishMessage) whatever the position of the other context, also while
\* that one has a record open; so records of two contexts interleave.
C17_NoMutualExclusion ==
  \A c \in Contexts :
    Running(c) =>
      /\ pc[c] = "check" => ENABLED LogCheck(c)
      /\ pc[c] = "read" => ENABLED GetCoarseTickCount(c)
      /\ pc[c] = "start" => ENABLED StartMessage(c)
      /\ pc[c] = "send" => ENABLED SendRemainingArguments(c)
      /\ pc[c] = "finish" => ENABLED FinishMessage(c)

\* the interrupt handler's record lies inside the record of the thread
C17_Witness ==
  /\ pc["thread"] = "send"
  /\ pc["isr"] = "finish"
  /\ Len(trace) = 5
  /\ trace[1].op = "startMessage" /\ trace[1].call = frame["thread"].call
  /\ trace[2].op = "appendData" /\ trace[2].call = frame["thread"].call
  /\ trace[3].op = "startMessage" /\ trace[3].call = frame["isr"].call
  /\ IsAppend(trace[4]) /\ trace[4].call = frame["isr"].call
  /\ IsAppend(trace[5]) /\ trace[5].call = frame["isr"].call
  /\ OpenAfter(5) = 2

\* C18: the threshold is changed only by setLevel: a step of a log call or
\* of the validator (a step that moves a context or changes its frame, a
\* sink operation, a tick read) leaves m_level as it is, so m_level is the
\* value last given to setLevel; and the step that changes the threshold
\* issues no sink operation, reads no tick and moves no call.
C18_OnlySetLevelChangesThreshold ==
  [][/\ (pc' # pc \/ frame' # frame \/ trace' # trace \/ reads' # reads
           \/ ncalls' # ncalls \/ filtered' # filtered)
          => m_level' = m_level
     /\ m_level' = lastSet'
     /\ (m_level' # m_level \/ lastSet' # lastSet)
          => /\ trace' = trace
             /\ reads' = reads
             /\ pc' = pc
             /\ frame' = frame
             /\ tick' = tick]_vars

\* setLevel has raised the threshold between a call that was let through
\* and a call that was filtered
C18_Witness ==
  /\ m_level = ERROR
  /\ lastSet = ERROR
  /\ Completed(1)
  /\ 2 \in filtered
  /\ Len(trace) = 3
  /\ Len(reads) = 1

\* C19: a call made through a LOG_<sev> macro is filtered by the severity
\* of the region its handle lies in: when it passes the level comparison,
\* the handle it is about to send lies in the region of a severity that is
\* at or above the threshold of that comparison; the handle entry of its
\* record is that handle; and when it does not pass, it emits nothing.
C19_MacroHandleMatchesFilter ==
  [][\A c \in Contexts :
       frame[c].macro =>
         /\ (CheckStep(c) /\ pc'[c] # "idle") =>
              \E s \in MacroLevels :
                /\ s = frame[c].level
                /\ s >= m_level
                /\ frame[c].args[1].val.section = Region[s]
         /\ (CheckStep(c) /\ pc'[c] = "idle") =>
              /\ frame[c].level < m_level
              /\ OpsAfter(frame[c].call) = << >>
         /\ (pc[c] = "send" /\ Sent(c) = 0 /\ frame'[c] # frame[c]) =>
              /\ trace'[Len(trace')].op = "appendData"
              /\ trace'[Len(trace')].call = frame[c].call
              /\ trace'[Len(trace')].val.section = Region[frame[c].level]
         /\ pc[c] \in {"read", "start", "send", "finish"} =>
              frame[c].args[1].val.section = Region[frame[c].level]]_vars

\* LOG_WARNING has emitted its handle, which lies in the warning region,
\* with WARNING as the threshold
C19_Witness ==
  \E c \in Contexts :
    /\ frame[c].macro
    /\ frame[c].level = WARNING
    /\ pc[c] = "finish"
    /\ lastSet = WARNING
    /\ \E i \in 1..Len(trace) :
         /\ trace[i].call = frame[c].call
         /\ trace[i].op = "appendData"
         /\ ToString(trace[i].val) = ToString(frame[c].args[1].val)
         /\ frame[c].args[1].val.section = ".interned_strings.warning"

====
